---- MODULE Spec2Model ----
(***************************************************************************)
(* Model of dashboard_datatable_builder (src/src/main.rs): a batch job     *)
(* that selects rotated firewall log files by modification time, extracts  *)
(* the blocked events, appends them to the ledger events.csv and compacts  *)
(* the ledger to a retention window, newest first.                         *)
(*                                                                         *)
(* Text is modelled as a sequence of tokens (one token per character, a    *)
(* whole date text being one token).  A csv field is a token sequence, a   *)
(* line of a csv file is the token sequence of its fields joined by the    *)
(* delimiter ",".  The alphabet holds no quote, CR or LF, and the fields   *)
(* the program writes come from str::split(','), so the csv writer never   *)
(* quotes and a line's fields are recovered by splitting on ",".           *)
(*                                                                         *)
(* Time is counted in ticks, SubsPerSec ticks to the second, from the      *)
(* origin 2024/01/01 00:00:00 local time.                                  *)
(***************************************************************************)
EXTENDS Integers, Sequences, FiniteSets, TLC

VARIABLES
    pc,            \* main: "start", "compact" (before line 330), "done" (returned)
    clock,         \* the wall clock, in ticks after Now0
    ledger,        \* events.csv: the sequence of its lines
    ledger_open,   \* events.csv ends in a record that has no terminator
    write_res,     \* what write_to_csv returned in this run
    compact_res,   \* what filter_csv_by_date returned in this run
    seen,          \* how many records the read loop of this run's pass was
                   \* given (read) and how many passed its filter (kept)
    arg_days_back, \* the days_back argument of a call studied on its own
    description,   \* clean_event_description: the text first given to it
    cleaned,       \* and what its successive applications returned
    log_file,      \* process_csv_file: the items of rdr.records() on the file
    log_opens,     \* whether from_path opens the file
    extracted,     \* and what the call returned, once it has
    directory,     \* filter_files: the entries read_dir yields
    selected,      \* and what the call returned, once it has
    all_entries,   \* the entries handed to write_to_csv on an empty ledger
    reparsed       \* and what the compactor's reader makes of the ledger

pipeVars == <<pc, clock, ledger, ledger_open, write_res, compact_res, seen>>

cleanVars == <<description, cleaned>>

extractVars == <<log_file, log_opens, extracted>>

selectVars == <<directory, selected>>

roundTripVars == <<all_entries, reparsed>>

callVars == <<arg_days_back, cleanVars, extractVars, selectVars, roundTripVars>>

vars == <<pipeVars, callVars>>

----------------------------------------------------------------------------
(* Bounds of the model *)

SubsPerSec == 2
MaxClock == 2
MaxRecords == 2
MaxLedger == 3

(* Program constants *)

retention_days == 15
DaySecs == 86400

----------------------------------------------------------------------------
(* Time *)

DurationDays(n) == n * DaySecs * SubsPerSec

\* The clock starts half a second before the instant at which the record
\* dated 00:00:01 reaches the retention age.
Now0 == DurationDays(retention_days) + SubsPerSec - 1

Now(c) == Now0 + c

\* The date texts of the model and the second each one denotes.
DateTexts == {"2024/01/01 00:00:01", "2024/01/01 00:00:02"}

DateSecs(t) ==
    CASE t = "2024/01/01 00:00:01" -> 1
      [] t = "2024/01/01 00:00:02" -> 2

NoDate == -1

\* NaiveDateTime::parse_from_str(s, "%Y/%m/%d %H:%M:%S"): the instant in
\* ticks, or NoDate for Err.
ParseFromStr(s) ==
    IF Len(s) = 1 /\ s[1] \in DateTexts THEN DateSecs(s[1]) * SubsPerSec ELSE NoDate

----------------------------------------------------------------------------
(* Text *)

Comma == ","
Space == " "

RECURSIVE Join(_)
\* fields.join(","), and format!("{a},{b},...") of the fields
Join(fields) ==
    IF Len(fields) = 0 THEN <<>>
    ELSE IF Len(fields) = 1 THEN fields[1]
    ELSE fields[1] \o <<Comma>> \o Join(Tail(fields))

RECURSIVE SplitFrom(_, _)
\* The fields of s after the field cur, which is being read.
SplitFrom(s, cur) ==
    IF Len(s) = 0 THEN <<cur>>
    ELSE IF Head(s) = Comma THEN <<cur>> \o SplitFrom(Tail(s), <<>>)
    ELSE SplitFrom(Tail(s), Append(cur, Head(s)))

\* s.split(','): always at least one field
Split(s) == SplitFrom(s, <<>>)

RECURSIVE TrimStart(_)
TrimStart(s) ==
    IF Len(s) > 0 /\ Head(s) = Space THEN TrimStart(Tail(s)) ELSE s

RECURSIVE TrimEnd(_)
TrimEnd(s) ==
    IF Len(s) > 0 /\ s[Len(s)] = Space THEN TrimEnd(SubSeq(s, 1, Len(s) - 1)) ELSE s

\* Trim::All on one field
Trim(s) == TrimEnd(TrimStart(s))

Range(s) == {s[i] : i \in 1..Len(s)}

\* All orders in which a HashSet may iterate over S.
Orders(S) ==
    LET n == Cardinality(S)
    IN  {o \in [1..n -> S] : \A i, j \in 1..n : i # j => o[i] # o[j]}

----------------------------------------------------------------------------
(* clean_event_description *)

\* The regex ^\[.*?>\s* matches at the start of d: d opens with "[" and a
\* ">" follows it.
RegexMatches(d) ==
    /\ Len(d) >= 2
    /\ d[1] = "["
    /\ \E j \in 2..Len(d) : d[j] = ">"

\* The end of a greedy match \[.*> : the last ">" of the text.
MatchEndGreedy(d) ==
    CHOOSE j \in 2..Len(d) : d[j] = ">" /\ \A k \in (j + 1)..Len(d) : d[k] # ">"

\* The end of the lazy match \[.*?> : the first ">" after the "[".
MatchEnd(d) ==
    CHOOSE j \in 2..Len(d) : d[j] = ">" /\ \A k \in 2..(j - 1) : d[k] # ">"

\* regex.replace_all(event_description, ""): the pattern is anchored at the
\* start of the text, so at most one match is replaced.
clean_event_description(d) ==
    IF RegexMatches(d) THEN TrimStart(SubSeq(d, MatchEnd(d) + 1, Len(d))) ELSE d

----------------------------------------------------------------------------
(* process_csv_file *)

\* One item of rdr.records(): Err, or Ok(record) with the fields the loop
\* reads, already trimmed (Trim::All); a column the record lacks reads as
\* the empty text (unwrap_or_default).
date_time_str(rec) == rec.f4

\* A condition that leaves out the test of the blocked flag.
InsertsAnyFlag(rec, cutoff) ==
    /\ rec.ok
    /\ ParseFromStr(date_time_str(rec)) # NoDate
    /\ ParseFromStr(date_time_str(rec)) > cutoff

\* The condition under which the loop inserts the record's entry.
Inserts(rec, cutoff) ==
    /\ rec.ok
    /\ ParseFromStr(date_time_str(rec)) # NoDate
    /\ ParseFromStr(date_time_str(rec)) > cutoff
    /\ rec.f11 = <<"1">>

\* format!("{date_time_str},{source_ip},{destination_ip},{cleaned_description},{priority}")
Entry(rec) ==
    Join(<<date_time_str(rec), rec.f6, rec.f12, clean_event_description(rec.f3), rec.f1>>)

\* What the loop prints for one item.
Printed(rec) ==
    IF ~rec.ok THEN <<"Failed to read record">>
    ELSE IF ParseFromStr(date_time_str(rec)) = NoDate
         THEN <<"Skipping record with invalid date">>
         ELSE <<>>

RECURSIVE ProcessLoop(_, _, _, _)
\* for result in rdr.records() { ... }
ProcessLoop(results, cutoff, unique_entries, out) ==
    IF Len(results) = 0 THEN [entries |-> unique_entries, out |-> out]
    ELSE LET rec == Head(results)
         IN  ProcessLoop(Tail(results), cutoff,
                         IF Inserts(rec, cutoff)
                         THEN unique_entries \cup {Entry(rec)}
                         ELSE unique_entries,
                         out \o Printed(rec))

\* process_csv_file(file_path, days_back) on a file that yields `results`;
\* can_open is whether from_path succeeds.
process_csv_file(results, can_open, now, days_back) ==
    IF ~can_open THEN [ok |-> FALSE, entries |-> {}, out |-> <<>>]
    ELSE LET cutoff == now - DurationDays(days_back)
             r == ProcessLoop(results, cutoff, {}, <<>>)
         IN  [ok |-> TRUE, entries |-> r.entries, out |-> r.out]

----------------------------------------------------------------------------
(* The csv writer and reader *)

\* The text the writer emits for one record.  No field holds a delimiter,
\* quote or line break, so nothing is quoted.
WriteLine(fields) == Join(fields)

RECURSIVE WriteRecords(_, _, _)
\* wtr.write_record(e.split(',')) for each e of `items`, in order, on a
\* writer whose first record had first_count fields (0: none written yet).
\* A record of another length fails with UnequalLengths after its fields
\* have reached the buffer and before its terminator; the buffer is flushed
\* when the writer is dropped.
WriteRecords(items, first_count, lines) ==
    IF Len(items) = 0 THEN [lines |-> lines, open |-> FALSE, ok |-> TRUE]
    ELSE LET fields == Split(Head(items))
         IN  IF first_count = 0 \/ first_count = Len(fields)
             THEN WriteRecords(Tail(items), Len(fields), Append(lines, WriteLine(fields)))
             ELSE [lines |-> Append(lines, WriteLine(fields)), open |-> TRUE, ok |-> FALSE]

\* The file after `w` was written at its end.
Appended(lines, open, w) ==
    IF Len(w.lines) = 0 THEN [lines |-> lines, open |-> open]
    ELSE IF open
         THEN [lines |-> SubSeq(lines, 1, Len(lines) - 1)
                          \o <<lines[Len(lines)] \o w.lines[1]>> \o Tail(w.lines),
               open |-> w.open]
         ELSE [lines |-> lines \o w.lines, open |-> w.open]

\* The record the reader makes of one line: its fields, trimmed.
ReadLine(line) ==
    LET fields == Split(line)
    IN  [i \in 1..Len(fields) |-> Trim(fields[i])]

\* reader.records() over a whole file: the records it yields, or an error.
\* The reader is not flexible: every record must have as many fields as
\* the first record of the file.  With has_headers the first record is the
\* header row and is not yielded.
ReaderRecords(lines, has_headers) ==
    LET recs == [i \in 1..Len(lines) |-> ReadLine(lines[i])]
        equal == \A i \in 1..Len(lines) : Len(recs[i]) = Len(recs[1])
    IN  [ok |-> equal,
         records |-> IF has_headers /\ Len(recs) > 0 THEN Tail(recs) ELSE recs]

----------------------------------------------------------------------------
(* write_to_csv *)

\* write_to_csv(entries, output_path): `order` is the order in which the
\* HashSet is iterated, can_open whether the file opens for append.
write_to_csv(order, lines, open, can_open) ==
    IF ~can_open THEN [lines |-> lines, open |-> open, res |-> "Err"]
    ELSE LET w == WriteRecords(order, 0, <<>>)
             f == Appended(lines, open, w)
         IN  [lines |-> f.lines, open |-> f.open, res |-> IF w.ok THEN "Ok" ELSE "Err"]

----------------------------------------------------------------------------
(* filter_csv_by_date *)

\* The date the sort comparator parses from a kept record.
SortDate(record_str) == ParseFromStr(Split(record_str)[1])

\* A comparator with its operands the other way round:
\* a_parsed_date.cmp(&b_parsed_date).
SortsBeforeAscending(a, b) == SortDate(a) < SortDate(b)

\* The comparator b_parsed_date.cmp(&a_parsed_date) returns Less: a sorts
\* before b.
SortsBefore(a, b) == SortDate(a) > SortDate(b)

RECURSIVE InsertSorted(_, _)
\* x put into the sorted sequence after every element it does not sort
\* before (sort_by is stable).
InsertSorted(sorted, x) ==
    IF Len(sorted) = 0 THEN <<x>>
    ELSE IF SortsBefore(x, Head(sorted)) THEN <<x>> \o sorted
    ELSE <<Head(sorted)>> \o InsertSorted(Tail(sorted), x)

RECURSIVE SortBy(_, _)
\* sorted_records.sort_by(...) of the records in the order the HashSet
\* yields them.
SortBy(order, sorted) ==
    IF Len(order) = 0 THEN sorted
    ELSE SortBy(Tail(order), InsertSorted(sorted, Head(order)))

\* The comparator's expect("RESULT") panics: it is called at all, and some
\* record's first field does not parse.
SortPanics(order) ==
    /\ Len(order) >= 2
    /\ \E i \in 1..Len(order) : SortDate(order[i]) = NoDate

\* A filter that also keeps a record dated exactly at the cutoff.
KeepsAtCutoff(record, cutoff) ==
    /\ Len(record) > 0
    /\ ParseFromStr(record[1]) # NoDate
    /\ ParseFromStr(record[1]) >= cutoff

\* The record passes the filter of the read loop.
Keeps(record, cutoff) ==
    /\ Len(record) > 0
    /\ ParseFromStr(record[1]) # NoDate
    /\ ParseFromStr(record[1]) > cutoff

\* record.iter().collect::<Vec<&str>>().join(",")
RecordStr(record) == Join(record)

RECURSIVE KeptOf(_, _)
\* The record strings the read loop inserts, in the order of the file.
KeptOf(records, cutoff) ==
    IF Len(records) = 0 THEN <<>>
    ELSE (IF Keeps(Head(records), cutoff) THEN <<RecordStr(Head(records))>> ELSE <<>>)
         \o KeptOf(Tail(records), cutoff)

\* The read loop of filter_csv_by_date over the whole file: whether every
\* item was Ok, how many records it was given, and the record strings it
\* inserted.
ReadLoop(lines, now, days_back) ==
    LET cutoff == now - DurationDays(days_back)
        rd == ReaderRecords(lines, TRUE)
        kept == KeptOf(rd.records, cutoff)
    IN  [ok |-> rd.ok, read |-> Len(rd.records), kept |-> kept]

\* records_to_keep as a Vec: every record string inserted, in file order.
IterationOrdersOfVec(kept) == {kept}

\* records_to_keep is a HashSet: each record string is held once, and the
\* set is iterated in any order.
IterationOrders(kept) == Orders(Range(kept))

\* A compactor that opens the ledger for write and truncate before it
\* reads it: a failed read or sort leaves the file empty.
filter_csv_by_date_truncate_first(lines, open, read, order, io, written) ==
    LET same == [lines |-> lines, open |-> open]
        none == [lines |-> <<>>, open |-> FALSE]
    IN  IF io = "open" THEN same @@ [res |-> "ErrOpen"]
        ELSE IF io = "truncate" THEN same @@ [res |-> "ErrTruncate"]
        ELSE IF ~read.ok THEN none @@ [res |-> "ErrRead"]
        ELSE IF SortPanics(order) THEN none @@ [res |-> "Panic"]
        ELSE LET sorted_records == SortBy(order, <<>>)
                 w == WriteRecords(sorted_records, 0, <<>>)
             IN  IF io = "write"
                 THEN [lines |-> SubSeq(w.lines, 1, written), open |-> FALSE, res |-> "ErrWrite"]
                 ELSE [lines |-> w.lines, open |-> w.open,
                       res |-> IF w.ok THEN "Ok" ELSE "ErrWrite"]

\* filter_csv_by_date(input_path, days_back), `read` being what its read
\* loop makes of the file.  `order` is the order in which records_to_keep
\* is iterated; io names the file operation the system refuses, if any:
\* "open" (File::open), "truncate" (the open for write and truncate),
\* "write" (the write, after `written` records).
filter_csv_by_date(lines, open, read, order, io, written) ==
    LET same == [lines |-> lines, open |-> open]
    IN  IF io = "open" THEN same @@ [res |-> "ErrOpen"]
        ELSE IF ~read.ok THEN same @@ [res |-> "ErrRead"]
        ELSE IF SortPanics(order) THEN same @@ [res |-> "Panic"]
        ELSE IF io = "truncate" THEN same @@ [res |-> "ErrTruncate"]
        ELSE LET sorted_records == SortBy(order, <<>>)
                 w == WriteRecords(sorted_records, 0, <<>>)
             IN  IF io = "write"
                 THEN [lines |-> SubSeq(w.lines, 1, written), open |-> FALSE,
                       res |-> "ErrWrite"]
                 ELSE [lines |-> w.lines, open |-> w.open,
                       res |-> IF w.ok THEN "Ok" ELSE "ErrWrite"]

----------------------------------------------------------------------------
(* filter_files *)

\* meta.modified()...duration_since(UNIX_EPOCH).as_secs(): whole seconds.
\* When the platform gives no modification time the current time stands in.
file_time(entry, now) ==
    (IF entry.modified_ok THEN entry.mtime ELSE now) \div SubsPerSec

\* (now - Duration::try_days(days_back)).timestamp(): whole seconds.
comparison_time(now, days_back) ==
    (now - DurationDays(days_back)) \div SubsPerSec

\* The closure of the filter: the entry is kept.
Selects(entry, now, days_back) ==
    /\ entry.prefix_ok
    /\ entry.meta_ok
    /\ file_time(entry, now) > comparison_time(now, days_back)

RECURSIVE filter_files(_, _, _)
\* filter_files(path, days_back) on a directory that lists `entries`.
filter_files(entries, now, days_back) ==
    IF Len(entries) = 0 THEN <<>>
    ELSE (IF Selects(Head(entries), now, days_back) THEN <<Head(entries)>> ELSE <<>>)
         \o filter_files(Tail(entries), now, days_back)

----------------------------------------------------------------------------
(* The inputs of the model *)

SeqsUpTo(S, n) == UNION {[1..k -> S] : k \in 0..n}

Date(t) == <<t>>

\* The records of the log files that the pipeline ingests.
PipeRecords ==
    {[ok |-> TRUE, f1 |-> <<"2">>, f3 |-> dt[1], f4 |-> Date(dt[2]), f6 |-> <<"a">>,
      f11 |-> <<"1">>, f12 |-> <<"b">>] :
        dt \in {<<<<"[", "t", ">", " ", "x">>, "2024/01/01 00:00:01">>,
                <<<<"[", "t", ">", " ", "x">>, "2024/01/01 00:00:02">>,
                <<<<"y">>, "2024/01/01 00:00:02">>,
                <<<<"x", Comma, " ", "y">>, "2024/01/01 00:00:02">>}}

RECURSIVE Listing(_)
\* The records of S, one after the other.
Listing(S) ==
    IF S = {} THEN <<>>
    ELSE LET r == CHOOSE x \in S : TRUE
         IN  <<r>> \o Listing(S \ {r})

\* The log files of the model: at most MaxRecords records each.
PipeFiles == {Listing(S) : S \in {T \in SUBSET PipeRecords : Cardinality(T) <= MaxRecords}}

\* The values of the days_back argument.
DaysBackValues == {retention_days, retention_days + 1}

----------------------------------------------------------------------------
(* main *)

NoneSeen == [read |-> 0, kept |-> 0]

PipeInit ==
    /\ pc = "start"
    /\ clock = 0
    /\ ledger = <<>>
    /\ ledger_open = FALSE
    /\ write_res = "none"
    /\ compact_res = "none"
    /\ seen = NoneSeen

\* Time passes.
Tick ==
    /\ clock < MaxClock
    /\ clock' = clock + 1
    /\ UNCHANGED <<pc, ledger, ledger_open, write_res, compact_res, seen, callVars>>

\* What main holds before it calls write_to_csv, for one log file in the
\* directory: the file is selected or not by its modification time, and
\* read.  ok is FALSE when process_csv_file returned an error.
Extracted(days_back, recent, can_read, results, now) ==
    LET entry == [prefix_ok |-> TRUE, meta_ok |-> TRUE, modified_ok |-> TRUE,
                  mtime |-> IF recent THEN now ELSE now - DurationDays(days_back)]
        files == filter_files(<<entry>>, now, days_back)
        r == process_csv_file(results, can_read, now, days_back)
    IN  IF Len(files) = 0 THEN [ok |-> TRUE, all_entries |-> {}]
        ELSE [ok |-> r.ok, all_entries |-> r.entries]

\* main up to and including `let _ = write_to_csv(all_entries, output_path)`.
\* An error of process_csv_file ends the run; the result of write_to_csv
\* is dropped.
MainIngest ==
    /\ pc = "start"
    /\ \E x \in UNION {
                 {Extracted(days_back, FALSE, TRUE, <<>>, Now(clock)),
                  Extracted(days_back, TRUE, FALSE, <<>>, Now(clock))}
                 \cup {Extracted(days_back, TRUE, TRUE, results, Now(clock)) :
                          results \in {f \in PipeFiles : Len(ledger) + Len(f) <= MaxLedger}} :
                 days_back \in DaysBackValues} :
          IF ~x.ok
          THEN /\ pc' = "done"
               /\ write_res' = "none"
               /\ UNCHANGED <<ledger, ledger_open>>
          ELSE \E can_append \in BOOLEAN :
               \E order \in IF can_append THEN Orders(x.all_entries) ELSE {<<>>} :
               \E w \in {write_to_csv(order, ledger, ledger_open, can_append)} :
                      /\ ledger' = w.lines
                      /\ ledger_open' = w.open
                      /\ write_res' = w.res
                      /\ pc' = "compact"
    /\ UNCHANGED <<clock, compact_res, seen, callVars>>

\* filter_csv_by_date(output_path, retention_days), and main returns.
MainCompact ==
    /\ pc = "compact"
    /\ \E read \in {ReadLoop(ledger, Now(clock), retention_days)} :
       \E io \in {"none", "open", "truncate", "write"} :
       \E order \in IF read.ok /\ io # "open" THEN IterationOrders(read.kept) ELSE {<<>>} :
       \E written \in IF io = "write" THEN 0..Len(order) ELSE {0} :
       \E r \in {filter_csv_by_date(ledger, ledger_open, read, order, io, written)} :
                  /\ ledger' = r.lines
                  /\ ledger_open' = r.open
                  /\ compact_res' = r.res
                  /\ seen' = IF io # "open" /\ read.ok
                             THEN [read |-> read.read, kept |-> Len(read.kept)]
                             ELSE NoneSeen
    /\ pc' = "done"
    /\ UNCHANGED <<clock, write_res, callVars>>

\* The process has exited; the job is started again.
NextRun ==
    /\ pc = "done"
    /\ pc' = "start"
    /\ write_res' = "none"
    /\ compact_res' = "none"
    /\ seen' = NoneSeen
    /\ UNCHANGED <<clock, ledger, ledger_open, callVars>>

\* No call is studied on its own.
CleanIdle == description = <<>> /\ cleaned = <<>>

ExtractIdle == log_file = <<>> /\ log_opens = FALSE /\ extracted = <<>>

SelectIdle == directory = <<>> /\ selected = <<>>

RoundTripIdle == all_entries = {} /\ reparsed = <<>>

Init ==
    /\ PipeInit
    /\ arg_days_back = 0
    /\ CleanIdle
    /\ ExtractIdle
    /\ SelectIdle
    /\ RoundTripIdle

Next == Tick \/ MainIngest \/ MainCompact \/ NextRun

\* Runs of the whole job, one after the other, on the same ledger.
Spec == Init /\ [][Next]_vars

----------------------------------------------------------------------------
(* Properties of the pipeline *)

\* The record a ledger line holds, as the compactor reads it.
LedgerRecord(line) == ReadLine(line)

\* Its canonical string.
Canonical(line) == Join(LedgerRecord(line))

\* Its timestamp, or NoDate.
Timestamp(line) == ParseFromStr(LedgerRecord(line)[1])

\* The retention cutoff of a pass that starts at `now`.
RetentionCutoff(now) == now - DurationDays(retention_days)

\* A step that is a whole compactor pass returning Ok.
PassOk == pc = "compact" /\ compact_res' = "Ok"

\* main has returned and its compactor pass returned Ok.
AfterPass == pc = "done" /\ compact_res = "Ok"

\* The distinct records of the ledger that have not expired at `now`,
\* whatever their line.
LiveRecords(lines, now) ==
    {Canonical(lines[i]) :
        i \in {k \in 1..Len(lines) :
                 Timestamp(lines[k]) # NoDate /\ Timestamp(lines[k]) > RetentionCutoff(now)}}

\* C1: a compactor pass over the header-less ledger writes back exactly the
\* distinct records whose timestamp parses and is strictly after
\* now - retention_days; the first line is a record like any other.
C1_KeepsEveryLiveRecord ==
    [][PassOk => {Canonical(ledger'[i]) : i \in 1..Len(ledger')}
                    = LiveRecords(ledger, Now(clock))]_pipeVars

\* C2: after a successful compactor pass every record of the ledger has a
\* timestamp strictly after now - retention_days, now being the time at
\* which the pass started.
C2_RetentionAfterPass ==
    [][PassOk => \A i \in 1..Len(ledger') :
                    /\ Timestamp(ledger'[i]) # NoDate
                    /\ Timestamp(ledger'[i]) > RetentionCutoff(Now(clock))]_pipeVars

\* The pass was given a record that it dropped, and kept another.
C2_Witness == AfterPass /\ seen.kept < seen.read /\ Len(ledger) > 0

\* C3: after a successful compactor pass the ledger is ordered by parsed
\* timestamp, newest first: no line is older than the line after it.
C3_SortedDescending ==
    AfterPass => \A i \in 1..(Len(ledger) - 1) :
                    /\ Timestamp(ledger[i]) # NoDate
                    /\ Timestamp(ledger[i + 1]) # NoDate
                    /\ Timestamp(ledger[i]) >= Timestamp(ledger[i + 1])

\* The pass wrote two records of different dates.
C3_Witness ==
    /\ AfterPass
    /\ Len(ledger) >= 2
    /\ Timestamp(ledger[1]) > Timestamp(ledger[2])

\* C4: at rest after a run that went through to the end of its compactor
\* pass, whatever the runs before it did, the ledger holds no two records
\* with the same canonical string, and the first field of every record
\* parses.
C4_NoDuplicatesAtRest ==
    AfterPass =>
        /\ \A i, j \in 1..Len(ledger) : i # j => Canonical(ledger[i]) # Canonical(ledger[j])
        /\ \A i \in 1..Len(ledger) : Timestamp(ledger[i]) # NoDate

\* The pass kept some record that it read more than once: an event was
\* ingested again.
C4_Witness ==
    /\ AfterPass
    /\ write_res = "Ok"
    /\ Len(ledger) > 0
    /\ Len(ledger) < seen.kept

\* C7: when write_to_csv fails the run ends there: the compactor is not
\* run on the ledger.
C7_WriteErrorIsFatal == write_res = "Err" => compact_res = "none"

\* C10: a compactor pass that fails while opening or reading the ledger, or
\* in the sort comparator, leaves the file as it was.
C10_FailedReadKeepsLedger ==
    [][(pc = "compact" /\ compact_res' \in {"ErrOpen", "ErrRead", "Panic"})
          => (ledger' = ledger /\ ledger_open' = ledger_open)]_pipeVars

\* A pass failed on a record it could not read, the ledger holding lines.
C10_Witness == pc = "done" /\ compact_res = "ErrRead" /\ Len(ledger) > 0

----------------------------------------------------------------------------
(* clean_event_description applied again to its own result *)

MaxDescLen == 4
MaxCleans == 2

\* The descriptions of the model: brackets, blanks and a letter.
Descriptions == SeqsUpTo({"[", ">", Space, "x"}, MaxDescLen)

InitClean ==
    /\ PipeInit
    /\ arg_days_back = 0
    /\ description \in Descriptions
    /\ cleaned = <<>>
    /\ ExtractIdle
    /\ SelectIdle
    /\ RoundTripIdle

\* clean_event_description(...) of the description, then of what the call
\* before it returned.
CleanEventDescription ==
    /\ Len(cleaned) < MaxCleans
    /\ cleaned' = Append(cleaned,
                         clean_event_description(IF cleaned = <<>> THEN description
                                                 ELSE cleaned[Len(cleaned)]))
    /\ UNCHANGED <<pipeVars, arg_days_back, description, extractVars, selectVars,
                   roundTripVars>>

NextClean == CleanEventDescription

SpecClean == InitClean /\ [][NextClean]_vars

\* d begins with a bracketed tag, blanks or none, and a second bracketed tag.
StartsWithTwoTags(d) ==
    \E i, k, j \in 1..Len(d) :
        /\ d[1] = "["
        /\ 1 < i /\ i < k /\ k < j
        /\ d[i] = ">"
        /\ \A m \in 2..(i - 1) : d[m] # ">"
        /\ \A m \in (i + 1)..(k - 1) : d[m] = Space
        /\ d[k] = "["
        /\ d[j] = ">"

\* C5 as stated: cleaning is idempotent, clean(clean(d)) = clean(d) for
\* every description d.
C5_CleanIdempotent == Len(cleaned) >= 2 => cleaned[2] = cleaned[1]

\* C5 amended: clean(clean(d)) = clean(d) exactly for the descriptions d
\* that do not begin with two consecutive bracketed tags; on those a second
\* application strips the second tag.
C5_IdempotentUnlessTwoTags ==
    Len(cleaned) >= 2 => (cleaned[2] = cleaned[1] <=> ~StartsWithTwoTags(description))

\* A description with one leading tag has been cleaned twice: the first
\* application stripped the tag.
C5_Witness ==
    /\ Len(cleaned) >= 2
    /\ ~StartsWithTwoTags(description)
    /\ cleaned[1] # description
    /\ Len(cleaned[1]) > 0

----------------------------------------------------------------------------
(* process_csv_file on one log file *)

MaxFileLen == 3

\* The items the reader yields: a record dated 00:00:01, 00:00:02 or with a
\* text that is no date, its blocked flag "1" or "0"; and an item that is
\* an error.
LogRecords ==
    {[ok |-> TRUE, f1 |-> <<"2">>, f3 |-> <<"[", "t", ">", Space, "x">>, f4 |-> date,
      f6 |-> <<"a">>, f11 |-> <<flag>>, f12 |-> <<"b">>] :
        date \in {Date(t) : t \in DateTexts} \cup {<<"x">>}, flag \in {"1", "0"}}
    \cup {[ok |-> FALSE, f1 |-> <<>>, f3 |-> <<>>, f4 |-> <<>>, f6 |-> <<>>,
           f11 |-> <<>>, f12 |-> <<>>]}

LogFiles == SeqsUpTo(LogRecords, MaxFileLen)

InitExtract ==
    /\ PipeInit
    /\ arg_days_back \in DaysBackValues
    /\ CleanIdle
    /\ log_file \in LogFiles
    /\ log_opens \in BOOLEAN
    /\ extracted = <<>>
    /\ SelectIdle
    /\ RoundTripIdle

\* The wall clock at which the call is made.
ExtractTick ==
    /\ extracted = <<>>
    /\ clock < MaxClock
    /\ clock' = clock + 1
    /\ UNCHANGED <<pc, ledger, ledger_open, write_res, compact_res, seen, callVars>>

\* process_csv_file(file_path, days_back)
ProcessCsvFile ==
    /\ extracted = <<>>
    /\ extracted' = <<process_csv_file(log_file, log_opens, Now(clock), arg_days_back)>>
    /\ UNCHANGED <<pipeVars, arg_days_back, cleanVars, log_file, log_opens, selectVars,
                   roundTripVars>>

NextExtract == ExtractTick \/ ProcessCsvFile

SpecExtract == InitExtract /\ [][NextExtract]_vars

\* The records of the file that the extractor is to include.
Included ==
    {i \in 1..Len(log_file) :
        /\ log_file[i].ok
        /\ ParseFromStr(log_file[i].f4) # NoDate
        /\ ParseFromStr(log_file[i].f4) > Now(clock) - DurationDays(arg_days_back)
        /\ log_file[i].f11 = <<"1">>}

----------------------------------------------------------------------------
(* filter_files on one directory *)

MaxDir == 2
MaxFileSecs == 3

\* The modification times of the model: every tick of the first
\* MaxFileSecs seconds.
FileTimes == 0..(MaxFileSecs * SubsPerSec - 1)

\* The entries of the directory: a log file modified at one of the times;
\* a file of another name; a file whose metadata cannot be read; a file
\* whose modification time the platform does not give.
DirEntries ==
    {[prefix_ok |-> TRUE, meta_ok |-> TRUE, modified_ok |-> TRUE, mtime |-> t] :
        t \in FileTimes}
    \cup {[prefix_ok |-> FALSE, meta_ok |-> TRUE, modified_ok |-> TRUE,
           mtime |-> MaxFileSecs * SubsPerSec - 1],
          [prefix_ok |-> TRUE, meta_ok |-> FALSE, modified_ok |-> TRUE,
           mtime |-> MaxFileSecs * SubsPerSec - 1],
          [prefix_ok |-> TRUE, meta_ok |-> TRUE, modified_ok |-> FALSE, mtime |-> 0]}

InitSelect ==
    /\ PipeInit
    /\ arg_days_back \in DaysBackValues
    /\ CleanIdle
    /\ ExtractIdle
    /\ directory \in SeqsUpTo(DirEntries, MaxDir)
    /\ selected = <<>>
    /\ RoundTripIdle

\* The wall clock at which the call is made.
SelectTick ==
    /\ selected = <<>>
    /\ clock < MaxClock
    /\ clock' = clock + 1
    /\ UNCHANGED <<pc, ledger, ledger_open, write_res, compact_res, seen, callVars>>

\* filter_files(path, days_back)
FilterFiles ==
    /\ selected = <<>>
    /\ selected' = <<filter_files(directory, Now(clock), arg_days_back)>>
    /\ UNCHANGED <<pipeVars, arg_days_back, cleanVars, extractVars, directory,
                   roundTripVars>>

NextSelect == SelectTick \/ FilterFiles

SpecSelect == InitSelect /\ [][NextSelect]_vars

\* C8: filter_files returns an entry with the prefix, readable metadata and
\* modification time t if and only if t > now - days_back days, to the
\* precision of the clock: equal to the cutoff is out, later by less than a
\* second is in.
C8_SelectsIffAfterCutoff ==
    selected # <<>> =>
        \A i \in 1..Len(directory) :
            (directory[i].prefix_ok /\ directory[i].meta_ok /\ directory[i].modified_ok)
                => ((\E j \in 1..Len(selected[1]) : selected[1][j] = directory[i])
                      <=> directory[i].mtime > Now(clock) - DurationDays(arg_days_back))

----------------------------------------------------------------------------
(* write_to_csv on an empty ledger, read back as the compactor reads it *)

\* The canonical entries of the model; no description holds a comma.
CanonicalEntries ==
    {Entry([ok |-> TRUE, f1 |-> <<priority>>, f3 |-> d, f4 |-> Date(t), f6 |-> <<"a">>,
            f11 |-> <<"1">>, f12 |-> <<"b">>]) :
        priority \in {"2", "3"}, d \in {<<"[", "t", ">", Space, "x">>, <<"y">>, <<>>},
        t \in DateTexts}

InitRoundTrip ==
    /\ PipeInit
    /\ arg_days_back = 0
    /\ CleanIdle
    /\ ExtractIdle
    /\ SelectIdle
    /\ all_entries \in {S \in SUBSET CanonicalEntries : Cardinality(S) <= MaxRecords}
    /\ reparsed = <<>>

\* write_to_csv(all_entries, output_path): the ledger does not exist yet.
RoundTripWrite ==
    /\ write_res = "none"
    /\ \E can_append \in BOOLEAN :
       \E order \in Orders(all_entries) :
       \E w \in {write_to_csv(order, ledger, ledger_open, can_append)} :
          /\ ledger' = w.lines
          /\ ledger_open' = w.open
          /\ write_res' = w.res
    /\ UNCHANGED <<pc, clock, compact_res, seen, callVars>>

\* The reader of filter_csv_by_date over the ledger, each record re-joined
\* as the read loop does.
RoundTripRead ==
    /\ write_res = "Ok"
    /\ reparsed = <<>>
    /\ \E rd \in {ReaderRecords(ledger, TRUE)} :
          reparsed' = <<[ok |-> rd.ok,
                         records |-> {RecordStr(rd.records[i]) : i \in 1..Len(rd.records)}]>>
    /\ UNCHANGED <<pipeVars, arg_days_back, cleanVars, extractVars, selectVars, all_entries>>

NextRoundTrip == RoundTripWrite \/ RoundTripRead

SpecRoundTrip == InitRoundTrip /\ [][NextRoundTrip]_vars

\* C9: the entries written to an empty ledger and read back as the
\* compactor reads them are the entries written: none lost, added or
\* altered.
C9_RoundTrip ==
    reparsed # <<>> => (reparsed[1].ok /\ reparsed[1].records = all_entries)

====
